---- MODULE Spec2Model ----
(***************************************************************************)
(* A model of business/organization.ts: the Organization class of the      *)
(* open source portal.  The class resolves configured special teams,       *)
(* resolves teams by name or slug, and issues remote calls with a          *)
(* credential bound to a purpose and a caching policy.                     *)
(*                                                                         *)
(* JavaScript values are modelled as follows.  An object is a function     *)
(* from field names to values; a field that is not in the domain is        *)
(* undefined.  A string that the code inspects character by character      *)
(* (toLowerCase, toString, comparison) is a sequence of one-character      *)
(* strings.  An argument that was not passed is NoArg.                     *)
(***************************************************************************)
EXTENDS Integers, Sequences, FiniteSets, TLC

VARIABLES
  specialTeams,   \* this._settings.specialTeams
  debug,          \* operations.config.github.debug
  teams,          \* the organization's team list as the remote API reports it
  id,             \* this.id: {} while unknown, {n} once known
  queryCache,     \* operations.providers.queryCache
  result,         \* what the last completed operation gave its caller
  calls,          \* the remote calls of the last operation, in issue order
  rm,             \* the removeMember call in progress
  entry,          \* the collection cache: per key, the cached entry
  tasks,          \* the collection cache: per key, the refreshes in flight
  served,         \* the collection cache: what the last caller was given
  waiting,        \* the collection cache: the callers blocked on a remote fetch
  wrapErrorStatus \* the status property of the imported wrapError function

vars == <<specialTeams, debug, teams, id, queryCache, result, calls, rm,
          entry, tasks, served, waiting, wrapErrorStatus>>

(***************************************************************************)
(* Bounds of the model.                                                    *)
(***************************************************************************)
MaxTeams == 2          \* teams in the remote team list
MaxTeamId == 2         \* team ids are 1..MaxTeamId
MaxSpecialTeams == 2   \* entries of settings.specialTeams
MaxCallers == 2        \* concurrent callers of one listing

(***************************************************************************)
(* JavaScript objects and values.                                          *)
(***************************************************************************)
EmptyObj == [k \in {} |-> 0]
Undefined == [undefined |-> TRUE]
NoArg == Undefined
Has(o, k) == k \in DOMAIN o
Put(o, k, v) == [f \in DOMAIN o \cup {k} |-> IF f = k THEN v ELSE o[f]]
\* options = options || {}
OrEmpty(o) == IF o = NoArg THEN EmptyObj ELSE o
\* the truthiness of a number field: !o.k is TRUE for undefined, 0 and NaN
TruthyNum(o, k) == Has(o, k) /\ o[k] # 0
\* o.k || d for a number field k
NumOr(o, k, d) == IF TruthyNum(o, k) THEN o[k] ELSE d

(***************************************************************************)
(* Strings: String.prototype.toLowerCase and Number.prototype.toString.    *)
(***************************************************************************)
LowerChar(c) ==
  CASE c = "A" -> "a"
    [] c = "B" -> "b"
    [] c = "C" -> "c"
    [] c = "T" -> "t"
    [] OTHER -> c

toLowerCase(s) == [i \in DOMAIN s |-> LowerChar(s[i])]

DigitChar(d) ==
  CASE d = 0 -> "0" [] d = 1 -> "1" [] d = 2 -> "2" [] d = 3 -> "3"
    [] d = 4 -> "4" [] d = 5 -> "5" [] d = 6 -> "6" [] d = 7 -> "7"
    [] d = 8 -> "8" [] d = 9 -> "9"

RECURSIVE toString(_)
toString(n) ==
  IF n < 10 THEN <<DigitChar(n)>>
  ELSE Append(toString(n \div 10), DigitChar(n % 10))

(***************************************************************************)
(* Outcomes of an operation, and the errors it raises.                     *)
(***************************************************************************)
Null == [null |-> TRUE]
Return(v) == [kind |-> "return", value |-> v]
Throw(v) == [kind |-> "throw", value |-> v]
\* new Error(message)
NewError(message) == [class |-> "Error", message |-> message]
\* utils.wrapError(error, message): a new error that keeps the original one
wrapError(error, message) ==
  [class |-> "Error", message |-> message, innerError |-> error]
\* a status test that matches nothing
StatusIsNever(error, status) == FALSE
\* error.status == 404, error being any thrown value
StatusIs(error, status) == Has(error, "status") /\ error.status = status

(***************************************************************************)
(* Credentials.  authorize binds the organization's purposeful header      *)
(* function to one purpose; nothing is fetched until the remote client     *)
(* calls the bound function.  A user token is passed as a header string.   *)
(***************************************************************************)
Purposes == {"Data", "Operations", "CustomerFacing"}
\* a binding that loses the purpose asked for
authorizeAnyPurpose(purpose) == [kind |-> "supplier", purpose |-> "Data"]
authorize(purpose) == [kind |-> "supplier", purpose |-> purpose]
userTokenHeader == [kind |-> "token", purpose |-> "none"]

\* one remote call: the client entry point, the API, the credential, the
\* caching policy handed over (NoArg when the call passes none)
RemoteCall(via, api, cred, caching) ==
  [via |-> via, api |-> api, cred |-> cred, caching |-> caching]

(***************************************************************************)
(* operations.defaults: the configured staleness budgets, in seconds.      *)
(***************************************************************************)
orgReposStaleSeconds == 600
orgMembersStaleSeconds == 300
orgTeamsStaleSeconds == 200
orgTeamsSlugLookupStaleSeconds == 30

\* the options objects callers pass to the listing operations
OptionsPool ==
  { NoArg, EmptyObj,
    [maxAgeSeconds |-> -60], [maxAgeSeconds |-> 0], [maxAgeSeconds |-> 10],
    [backgroundRefresh |-> FALSE],
    [backgroundRefresh |-> TRUE, pageRequestDelay |-> 1],
    [maxAgeSeconds |-> 10, backgroundRefresh |-> FALSE] }

\* copies o's field k, if o has it, into c
CopyField(c, o, k) == IF Has(o, k) THEN Put(c, k, o[k]) ELSE c
\* c.k = o.k || null, a null field being left out like an undefined one
CopyTruthyNum(c, o, k) == IF TruthyNum(o, k) THEN Put(c, k, o[k]) ELSE c

\* getTeams: the caching policy it builds from its options
getTeamsCaching(options) ==
  LET o == OrEmpty(options)
      c0 == [maxAgeSeconds |-> NumOr(o, "maxAgeSeconds", orgTeamsStaleSeconds)]
      c1 == CopyTruthyNum(c0, o, "pageRequestDelay")
  IN  \* caching.backgroundRefresh = options.backgroundRefresh
      CopyField(c1, o, "backgroundRefresh")

getTeamsCall(options) ==
  RemoteCall("collections.getOrgTeams", "orgs.getTeams", authorize("Data"),
             getTeamsCaching(options))

(***************************************************************************)
(* The entity factory.                                                     *)
(***************************************************************************)
team(teamId, optionalEntity) ==
  LET entity == IF optionalEntity = NoArg
                THEN Put(EmptyObj, "id", teamId) ELSE optionalEntity
  IN  Put(Put(entity, "class", "Team"), "organization", "this")

teamFromEntity(entity) == team(entity.id, entity)

\* common.createInstances: one wrapper per raw record, in order
createTeams(entities) == [i \in DOMAIN entities |-> teamFromEntity(entities[i])]

(***************************************************************************)
(* getTeamFromName.                                                        *)
(***************************************************************************)
\* a redirect error that does not carry the team
redirectErrorWithoutTeam(slug, t) ==
  [class |-> "Error", message |-> "The team is also available by slug",
   status |-> 301, slug |-> slug]

redirectError(slug, t) ==
  [class |-> "Error", message |-> "The team is also available by slug",
   status |-> 301, slug |-> slug, team |-> t]

\* a not-found error that is logged like any other
teamNotFoundErrorLogged ==
  [class |-> "Error", message |-> "No team was found", status |-> 404]

teamNotFoundError ==
  [class |-> "Error", message |-> "No team was found", status |-> 404,
   skipLog |-> TRUE]

\* what the id fallback raises: the statement is `throw alternativeCandidateById`
idFallbackThrown(candidate) == candidate

\* a scan that an id match ends
RECURSIVE scanTeamsIdEnds(_, _, _, _)
scanTeamsIdEnds(ts, i, expected, alternativeCandidateById) ==
  IF i > Len(ts)
  THEN Throw(teamNotFoundError)
  ELSE LET t == ts[i]
           name == toLowerCase(t.name)
           slug == toLowerCase(t.slug)
       IN  IF expected = name /\ name # slug
           THEN Throw(redirectError(slug, t))
           ELSE IF toString(t.id) = expected
                THEN Throw(idFallbackThrown(t))
                ELSE IF expected = slug
                     THEN Return(t)
                     ELSE scanTeamsIdEnds(ts, i + 1, expected, Null)

\* the loop over the teams, from index i on, and what follows it
RECURSIVE scanTeams(_, _, _, _)
scanTeams(ts, i, expected, alternativeCandidateById) ==
  IF i > Len(ts)
  THEN IF alternativeCandidateById # Null
       THEN Throw(idFallbackThrown(alternativeCandidateById))
       ELSE Throw(teamNotFoundError)
  ELSE LET t == ts[i]
           name == toLowerCase(t.name)
           slug == toLowerCase(t.slug)
           candidate == IF toString(t.id) = expected
                        THEN t ELSE alternativeCandidateById
       IN  IF expected = name /\ name # slug
           THEN Throw(redirectError(slug, t))
           ELSE IF expected = slug
                THEN Return(t)
                ELSE scanTeams(ts, i + 1, expected, candidate)

\* the options object after `if (!options.maxAgeSeconds) options.maxAgeSeconds = ...`
slugLookupOptions(options) ==
  LET o == OrEmpty(options)
  IN  IF TruthyNum(o, "maxAgeSeconds") THEN o
      ELSE Put(o, "maxAgeSeconds", orgTeamsSlugLookupStaleSeconds)

\* the outcome, given the raw team records the collection fetch returned
getTeamFromNameOutcome(nameOrSlug, teamEntities) ==
  scanTeams(createTeams(teamEntities), 1, toLowerCase(nameOrSlug), Null)

\* a remote failure with an HTTP status, and one without
RemoteError(status) == [class |-> "Error", message |-> "remote", status |-> status]
NetworkError == [class |-> "Error", message |-> "network"]

(***************************************************************************)
(* The team lists the remote API can report: ids and slugs are unique      *)
(* within an organization (slugs case-insensitively).                      *)
(***************************************************************************)
TeamNames == { <<"c">>, <<"C">>, <<"C", " ", "T">>, <<"c", "-", "t">>, <<"1">> }
TeamSlugs == { <<"c">>, <<"c", "-", "t">>, <<"1">> }
TeamEntities ==
  [id : 1..MaxTeamId, name : TeamNames, slug : TeamSlugs]

\* e can follow the teams of l: its id and its slug are not taken
FreshTeam(l, e) ==
  \A i \in DOMAIN l :
    /\ l[i].id # e.id
    /\ toLowerCase(l[i].slug) # toLowerCase(e.slug)

RECURSIVE TeamListsOfLen(_)
TeamListsOfLen(n) ==
  IF n = 0 THEN { <<>> }
  ELSE LET shorter == TeamListsOfLen(n - 1)
       IN  UNION { { Append(l, e) : e \in { t \in TeamEntities : FreshTeam(l, t) } }
                   : l \in shorter }

TeamLists == UNION { TeamListsOfLen(n) : n \in 0..MaxTeams }

NameInputs == TeamNames \cup TeamSlugs \cup { <<"2">>, <<"z">> }

(***************************************************************************)
(* Idle values of the state the team resolution does not touch.            *)
(***************************************************************************)
NoResult == [op |-> "none"]
IdleRm == [pc |-> "idle"]

ResolveIdle ==
  /\ specialTeams = <<>>
  /\ debug = NoArg
  /\ id = {}
  /\ queryCache = NoArg
  /\ rm = IdleRm
  /\ entry = <<>>
  /\ tasks = <<>>
  /\ served = <<>>
  /\ waiting = {}
  /\ wrapErrorStatus = {}

ResolveUnchanged ==
  UNCHANGED <<specialTeams, debug, id, queryCache, rm, entry, tasks, served,
              waiting, wrapErrorStatus>>

InitResolve ==
  /\ teams \in TeamLists
  /\ result = NoResult
  /\ calls = <<>>
  /\ ResolveIdle

\* getTeamFromName(nameOrSlug, options), the team listing succeeding.  The
\* call reads the team list and writes only its own outcome, so a second call
\* reaches no state a first call does not: one call per behaviour is modelled.
GetTeamFromName ==
  \E nameOrSlug \in NameInputs, options \in OptionsPool :
    /\ result = NoResult
    /\ calls' = <<getTeamsCall(slugLookupOptions(options))>>
    /\ result' = [op |-> "getTeamFromName",
                  nameOrSlug |-> nameOrSlug,
                  options |-> options,
                  optionsAfter |-> IF options = NoArg THEN NoArg
                                   ELSE slugLookupOptions(options),
                  fetched |-> TRUE,
                  listed |-> teams,
                  outcome |-> getTeamFromNameOutcome(nameOrSlug, teams)]
    /\ UNCHANGED teams
    /\ ResolveUnchanged

\* getTeamFromName(nameOrSlug, options), the team listing failing: getTeams
\* and getTeamFromName pass the failure on as it is
GetTeamFromNameFails ==
  \E nameOrSlug \in NameInputs, options \in OptionsPool,
     error \in {RemoteError(500), NetworkError} :
    /\ result = NoResult
    /\ calls' = <<getTeamsCall(slugLookupOptions(options))>>
    /\ result' = [op |-> "getTeamFromName",
                  nameOrSlug |-> nameOrSlug,
                  options |-> options,
                  optionsAfter |-> IF options = NoArg THEN NoArg
                                   ELSE slugLookupOptions(options),
                  fetched |-> FALSE,
                  listed |-> <<>>,
                  outcome |-> Throw(error)]
    /\ UNCHANGED teams
    /\ ResolveUnchanged

NextResolve == GetTeamFromName \/ GetTeamFromNameFails

SpecResolve == InitResolve /\ [][NextResolve]_vars

(***************************************************************************)
(* Special teams: settings.specialTeams is a list of entries               *)
(* {specialTeam, teamId}.                                                  *)
(***************************************************************************)
SpecialTeam ==
  {"Everyone", "GlobalSudo", "Sudo", "SystemRead", "SystemWrite", "SystemAdmin"}

EntriesFor(specialTeam) ==
  { i \in DOMAIN specialTeams : specialTeams[i].specialTeam = specialTeam }

Least(S) == CHOOSE i \in S : \A j \in S : i <= j

\* getSpecialTeam(specialTeam, friendlyName), as every caller calls it: the
\* loop keeps the first matching entry's teamId and breaks; `if (teamId)`
\* then decides whether the list holds it
getSpecialTeam(specialTeam) ==
  IF EntriesFor(specialTeam) = {} THEN <<>>
  ELSE LET teamId == specialTeams[Least(EntriesFor(specialTeam))].teamId
       IN  IF teamId # 0 THEN <<teamId>> ELSE <<>>

\* the three single-team accessors share this shape
singleTeam(ids, message) ==
  IF Len(ids) > 1 THEN Throw(NewError(message))
  ELSE IF Len(ids) = 1 THEN Return(team(ids[1], NoArg))
  ELSE Return(Null)

broadAccessTeams == getSpecialTeam("Everyone")
invitationTeam ==
  singleTeam(broadAccessTeams, "Multiple invitation teams are not supported.")
systemSudoersTeam ==
  singleTeam(getSpecialTeam("GlobalSudo"),
             "Multiple system sudoer teams are not supported.")
sudoersTeam ==
  singleTeam(getSpecialTeam("Sudo"), "Multiple sudoer teams are not supported.")

\* specialRepositoryPermissionTeams: read, write, admin
specialRepositoryPermissionTeams ==
  [read |-> getSpecialTeam("SystemRead"),
   write |-> getSpecialTeam("SystemWrite"),
   admin |-> getSpecialTeam("SystemAdmin")]

\* systemTeamIds: the sudo team's id, the broad access ids, then the
\* properties of specialRepositoryPermissionTeams in the order they are
\* written
systemTeamIds ==
  IF sudoersTeam.kind = "throw" THEN sudoersTeam
  ELSE LET sudo == IF sudoersTeam.value # Null
                   THEN <<sudoersTeam.value.id>> ELSE <<>>
           special == specialRepositoryPermissionTeams
       IN  Return(sudo \o broadAccessTeams \o special.read \o special.write
                    \o special.admin)

(***************************************************************************)
(* isSudoer.                                                               *)
(***************************************************************************)
GitHubTeamRole == {"member", "maintainer"}

\* what sudoerTeam.getMembershipEfficiently can answer: no response, a
\* response without a role, a response with a role; or a failure
MembershipResponses ==
  { Return(Null), Return(EmptyObj), Return([role |-> "member"]),
    Return([role |-> "maintainer"]), Return([role |-> "admin"]),
    Throw(RemoteError(404)), Throw(RemoteError(500)), Throw(NetworkError) }

teamMembershipCall(t, username) ==
  [via |-> "team.getMembershipEfficiently", api |-> "teams.getMembership",
   team |-> t.id, username |-> username]

\* appConfig.github.debug && appConfig.github.debug.orgSudoOff
orgSudoOff == debug # NoArg /\ Has(debug, "orgSudoOff") /\ debug.orgSudoOff

\* a classification that reports every unrecognized role as no sudoer
sudoFromMembershipLenient(response) ==
  IF response.kind = "throw"
  THEN IF StatusIs(response.value, 404) THEN Return(FALSE)
       ELSE Throw(response.value)
  ELSE Return(/\ response.value # Null
              /\ Has(response.value, "role")
              /\ response.value.role \in GitHubTeamRole)

\* the part of isSudoer after the membership query answered
sudoFromMembership(response) ==
  IF response.kind = "throw"
  THEN IF StatusIs(response.value, 404) THEN Return(FALSE)
       ELSE Throw(response.value)
  ELSE LET hasRole == response.value # Null /\ Has(response.value, "role")
       IN  IF ~hasRole THEN Return(FALSE)
           ELSE IF response.value.role \in GitHubTeamRole THEN Return(TRUE)
           ELSE Throw(NewError("unrecognized membership type"))

\* isSudoer without the debug override: the membership query is always made
isSudoerIgnoringDebug(username, response) ==
  IF sudoersTeam.kind = "throw"
  THEN [calls |-> <<>>, outcome |-> sudoersTeam]
  ELSE IF sudoersTeam.value = Null
  THEN [calls |-> <<>>, outcome |-> Return(FALSE)]
  ELSE [calls |-> <<teamMembershipCall(sudoersTeam.value, username)>>,
        outcome |-> sudoFromMembership(response)]

\* isSudoer(username): [calls, outcome], given what the membership query
\* would answer
isSudoer(username, response) ==
  IF sudoersTeam.kind = "throw"
  THEN [calls |-> <<>>, outcome |-> sudoersTeam]
  ELSE IF sudoersTeam.value = Null
  THEN [calls |-> <<>>, outcome |-> Return(FALSE)]
  ELSE IF orgSudoOff
  THEN [calls |-> <<>>, outcome |-> Return(FALSE)]
  ELSE [calls |-> <<teamMembershipCall(sudoersTeam.value, username)>>,
        outcome |-> sudoFromMembership(response)]

(***************************************************************************)
(* The special team configurations and the debug settings.                 *)
(***************************************************************************)
ConfiguredTeamIds == {0, 1, 2}
SpecialTeamEntries == [specialTeam : SpecialTeam, teamId : ConfiguredTeamIds]

RECURSIVE EntryListsOfLen(_)
EntryListsOfLen(n) ==
  IF n = 0 THEN { <<>> }
  ELSE { Append(l, e) : l \in EntryListsOfLen(n - 1), e \in SpecialTeamEntries }

SpecialTeamLists == UNION { EntryListsOfLen(n) : n \in 0..MaxSpecialTeams }

DebugSettings == { NoArg, [orgSudoOff |-> FALSE], [orgSudoOff |-> TRUE] }

CapsUnchanged ==
  UNCHANGED <<specialTeams, debug, teams, id, queryCache, rm, entry, tasks,
              served, waiting, wrapErrorStatus>>

InitCaps ==
  /\ specialTeams \in SpecialTeamLists
  /\ debug \in DebugSettings
  /\ teams = <<>>
  /\ id = {}
  /\ queryCache = NoArg
  /\ rm = IdleRm
  /\ entry = <<>>
  /\ tasks = <<>>
  /\ served = <<>>
  /\ waiting = {}
  /\ wrapErrorStatus = {}
  /\ result = NoResult
  /\ calls = <<>>

\* The accessors read the settings and write nothing but their outcome, so
\* a second call reaches no state a first call does not: one call per
\* behaviour is modelled.
GetSpecialTeam ==
  \E specialTeam \in SpecialTeam :
    /\ result = NoResult
    /\ result' = [op |-> "getSpecialTeam", specialTeam |-> specialTeam,
                  outcome |-> Return(getSpecialTeam(specialTeam))]
    /\ calls' = <<>>
    /\ CapsUnchanged

SudoersTeam ==
  /\ result = NoResult
  /\ result' = [op |-> "sudoersTeam", specialTeam |-> "Sudo",
                outcome |-> sudoersTeam]
  /\ calls' = <<>>
  /\ CapsUnchanged

SystemSudoersTeam ==
  /\ result = NoResult
  /\ result' = [op |-> "systemSudoersTeam", specialTeam |-> "GlobalSudo",
                outcome |-> systemSudoersTeam]
  /\ calls' = <<>>
  /\ CapsUnchanged

InvitationTeam ==
  /\ result = NoResult
  /\ result' = [op |-> "invitationTeam", specialTeam |-> "Everyone",
                outcome |-> invitationTeam]
  /\ calls' = <<>>
  /\ CapsUnchanged

IsSudoer ==
  \E response \in MembershipResponses :
    LET r == isSudoer("alice", response)
    IN  /\ result = NoResult
        /\ result' = [op |-> "isSudoer", username |-> "alice",
                      \* the answer is recorded only when it was asked for
                      response |-> IF r.calls = <<>> THEN Null ELSE response,
                      outcome |-> r.outcome]
        /\ calls' = r.calls
        /\ CapsUnchanged

SystemTeamIds ==
  /\ result = NoResult
  /\ result' = [op |-> "systemTeamIds", outcome |-> systemTeamIds]
  /\ calls' = <<>>
  /\ CapsUnchanged

(***************************************************************************)
(* The operations that call the remote API.  Each operator gives what the  *)
(* operation does for one answer of the remote API: the calls it issues    *)
(* and what it returns or throws.                                          *)
(***************************************************************************)
\* a failure of a remote call: with status 404, with another status, or
\* with no status at all
RemoteFailures == { RemoteError(404), RemoteError(500), NetworkError }

\* github.call / github.post with a credential and no caching policy
Call(api, cred) == RemoteCall("call", api, cred, NoArg)
Post(api, cred) == RemoteCall("post", api, cred, NoArg)

\* a paged collection fetch with its parameters and caching policy
Collection(via, api, purpose, parameters, caching) ==
  Put(RemoteCall(via, api, authorize(purpose), caching),
      "parameters", parameters)

\* a policy that never refreshes in the background
backgroundRefreshNever(o) == FALSE
\* `backgroundRefresh: true`, then `= false` if options.backgroundRefresh === false
backgroundRefreshUnlessFalse(o) ==
  ~(Has(o, "backgroundRefresh") /\ o.backgroundRefresh = FALSE)

\* getRepositories: the caching policy
getRepositoriesCaching(options) ==
  LET o == OrEmpty(options)
      c0 == [maxAgeSeconds |-> NumOr(o, "maxAgeSeconds", orgReposStaleSeconds),
             backgroundRefresh |-> backgroundRefreshUnlessFalse(o)]
  IN  CopyTruthyNum(c0, o, "pageRequestDelay")

getRepositoriesCall(options) ==
  Collection("collections.getOrgRepos", "repos.listForOrg", "Data",
             [type |-> "all"], getRepositoriesCaching(options))

\* getMembers: the parameters and the caching policy
getMembersParameters(options) ==
  LET o == OrEmpty(options)
      p1 == IF Has(o, "filter") THEN Put(EmptyObj, "filter", o.filter) ELSE EmptyObj
  IN  IF Has(o, "role") THEN Put(p1, "role", o.role) ELSE p1

getMembersCaching(options) ==
  LET o == OrEmpty(options)
      c0 == [maxAgeSeconds |-> NumOr(o, "maxAgeSeconds", orgMembersStaleSeconds),
             backgroundRefresh |-> backgroundRefreshUnlessFalse(o)]
  IN  \* pageRequestDelay: options.pageRequestDelay
      CopyField(c0, o, "pageRequestDelay")

getMembersCall(options) ==
  Collection("collections.getOrgMembers", "orgs.listMembers", "Data",
             getMembersParameters(options), getMembersCaching(options))

\* Object.assign({}, options), then one field set: getOwners and
\* getMembersWithoutTwoFactor
getOwnersOptions(options) == Put(OrEmpty(options), "role", "admin")
withoutTwoFactorOptions(options) ==
  Put(OrEmpty(options), "filter", "2fa_disabled")

getTeamsFullCall(options) == Put(getTeamsCall(options), "parameters", EmptyObj)

\* the wrappers
member(memberId, optionalEntity) ==
  LET entity == IF optionalEntity = NoArg
                THEN Put(EmptyObj, "id", memberId) ELSE optionalEntity
  IN  Put(Put(entity, "class", "OrganizationMember"), "organization", "this")
memberFromEntity(entity) == member(entity.id, entity)

repository(name, optionalEntity) ==
  LET entity == IF optionalEntity = NoArg
                THEN Put(EmptyObj, "name", name) ELSE optionalEntity
  IN  Put(Put(entity, "class", "Repository"), "organization", "this")
repositoryFromEntity(entity) == repository(entity.name, entity)

\* common.createInstances with the wrapper of the listing
createInstances(wrapper, entity) ==
  CASE wrapper = "memberFromEntity" -> memberFromEntity(entity)
    [] wrapper = "teamFromEntity" -> teamFromEntity(entity)
    [] wrapper = "repositoryFromEntity" -> repositoryFromEntity(entity)

\* a listing: the wrapped entities, or the failure as it is
listing(call, wrapper, response) ==
  [calls |-> <<call>>,
   outcome |-> IF response.kind = "throw" THEN response
               ELSE Return([i \in DOMAIN response.value |->
                              createInstances(wrapper, response.value[i])])]

getMembers(options, response) ==
  listing(getMembersCall(options), "memberFromEntity", response)
getOwners(options, response) == getMembers(getOwnersOptions(options), response)
getMembersWithoutTwoFactor(options, response) ==
  getMembers(withoutTwoFactorOptions(options), response)
getTeams(options, response) ==
  listing(getTeamsFullCall(options), "teamFromEntity", response)
getRepositories(options, response) ==
  listing(getRepositoriesCall(options), "repositoryFromEntity", response)

\* isMemberSingleFactor: a case-insensitive search of the logins
isMemberSingleFactor(username, options, response) ==
  LET l == getMembersWithoutTwoFactor(options, response)
  IN  [calls |-> l.calls,
       outcome |-> IF l.outcome.kind = "throw" THEN l.outcome
                   ELSE Return(\E i \in DOMAIN l.outcome.value :
                          toLowerCase(l.outcome.value[i].login)
                            = toLowerCase(username))]

\* a single call in try/catch that wraps every failure
wrapped(call, response, message) ==
  [calls |-> <<call>>,
   outcome |-> IF response.kind = "throw"
               THEN Throw(wrapError(response.value, message))
               ELSE response]

\* StripGitHubEntity: the entity without the fields the portal does not keep
StripGitHubEntity(entity) == [f \in DOMAIN entity \ {"headers"} |-> entity[f]]

\* createRepository; parseError tells whether StripGitHubEntity throws
createRepository(response, parseError) ==
  LET w == wrapped(Post("repos.createInOrg", authorize("Operations")), response,
                   "Could not create the repository")
  IN  IF response.kind = "throw" THEN w
      ELSE [calls |-> w.calls,
            outcome |-> Return(
              [repository |-> repositoryFromEntity(response.value),
               response |-> IF parseError THEN response.value
                            ELSE StripGitHubEntity(response.value)])]

getDetails(response) ==
  wrapped(Call("orgs.get", authorize("Data")), response,
          "Could not get details about the organization")

\* this.id after getDetails: `if (entity && entity.id) this.id = entity.id`
idAfterDetails(response) ==
  IF /\ response.kind = "return"
     /\ response.value # Null
     /\ TruthyNum(response.value, "id")
  THEN {response.value.id} ELSE id

getAuthorizedOperationsAccount(response) ==
  wrapped(Post("users.getAuthenticated", authorize("Operations")), response,
          "Could not get details about the authenticated account")

acceptOrganizationInvitation(response) ==
  wrapped(Post("orgs.updateMembership", userTokenHeader), response,
          "Could not accept your invitation")

concealMembership(response) ==
  LET w == wrapped(Post("orgs.concealMembership", userTokenHeader), response,
                   "Could not conceal the organization membership")
  IN  [calls |-> w.calls,
       outcome |-> IF w.outcome.kind = "throw" THEN w.outcome ELSE Return(Null)]

publicizeMembership(response) ==
  LET w == wrapped(Post("orgs.publicizeMembership", userTokenHeader), response,
                   "Could not publicize the organization membership")
  IN  [calls |-> w.calls,
       outcome |-> IF w.outcome.kind = "throw" THEN w.outcome ELSE Return(Null)]

\* getMembership(username, options): options is read by nothing after
\* `options = options || {}`
getMembership(options, response) ==
  [calls |-> <<Call("orgs.getMembership", authorize("Operations"))>>,
   outcome |-> IF response.kind = "return" THEN response
               ELSE IF StatusIs(response.value, 404) THEN Return(Null)
               ELSE Throw(wrapError(response.value,
                                    "Trouble retrieving the membership"))]

\* `if (error.status) wrapError['status'] = error.status` writes the status
\* on the function utils exports, not on wrappedError
wrapErrorStatusAfter(response) ==
  IF /\ response.kind = "throw"
     /\ ~StatusIs(response.value, 404)
     /\ TruthyNum(response.value, "status")
  THEN {response.value.status} ELSE wrapErrorStatus

\* the options getOperationalMembership builds for getMembership
operationalOptions == [backgroundRefresh |-> FALSE, maxAgeSeconds |-> -60]

\* getOperationalMembership(username); a username is a non-empty string or
\* is missing
getOperationalMembership(hasUsername, response) ==
  IF ~hasUsername
  THEN [calls |-> <<>>, outcome |-> Throw(NewError("username must be provided"))]
  ELSE getMembership(operationalOptions, response)

\* addMembership: no try/catch
addMembership(response) ==
  [calls |-> <<Post("orgs.addOrUpdateMembership", authorize("Operations"))>>,
   outcome |-> response]

checkPublicMembership(response) ==
  [calls |-> <<Post("orgs.checkPublicMembership", authorize("CustomerFacing"))>>,
   outcome |-> IF response.kind = "return" THEN Return(TRUE)
               ELSE IF StatusIs(response.value, 404) THEN Return(FALSE)
               ELSE Throw(wrapError(response.value,
                     "Trouble retrieving the public membership status"))]

\* a pending-invitations lookup that raises every failure
getMembershipInvitationsRaising(response) ==
  [calls |-> <<Call("orgs.listPendingInvitations", authorize("Operations"))>>,
   outcome |-> response]

getMembershipInvitations(response) ==
  [calls |-> <<Call("orgs.listPendingInvitations", authorize("Operations"))>>,
   outcome |-> IF response.kind = "return" THEN response
               ELSE IF StatusIs(response.value, 404) THEN Return(Null)
               ELSE response]

(***************************************************************************)
(* getOrganizationAdministrators: the owners and the members of the sudo   *)
(* team, one entry for each account id, in the order they are first seen.  *)
(***************************************************************************)
\* what the owner listing and the sudo team's member listing can answer
AdministratorListings ==
  { Return(<<>>),
    Return(<<[id |-> 1, login |-> <<"A">>]>>),
    Return(<<[id |-> 1, login |-> <<"A">>], [id |-> 2, login |-> <<"B">>]>>),
    Throw(RemoteError(404)), Throw(RemoteError(500)), Throw(NetworkError) }

\* an entry is added for every account, known or not
getAdministratorEntryAlwaysNew(administrators, accountId, login) ==
  Append(administrators,
         [id |-> accountId, login |-> login, sudo |-> FALSE, owner |-> FALSE])

\* getAdministratorEntry(id, login): the map with an entry for the id,
\* added with sudo and owner false when the id has none
getAdministratorEntry(administrators, accountId, login) ==
  IF \E k \in DOMAIN administrators : administrators[k].id = accountId
  THEN administrators
  ELSE Append(administrators,
              [id |-> accountId, login |-> login, sudo |-> FALSE,
               owner |-> FALSE])

\* the loop `getAdministratorEntry(id, login).<flag> = true` over a listing
RECURSIVE markAdministrators(_, _, _, _)
markAdministrators(administrators, accounts, i, flag) ==
  IF i > Len(accounts) THEN administrators
  ELSE LET entries == getAdministratorEntry(administrators, accounts[i].id,
                                            accounts[i].login)
           k == CHOOSE n \in DOMAIN entries :
                  /\ entries[n].id = accounts[i].id
                  /\ \A m \in 1..(n - 1) : entries[m].id # accounts[i].id
           marked == [entries EXCEPT ![k] = [@ EXCEPT ![flag] = TRUE]]
       IN  markAdministrators(marked, accounts, i + 1, flag)

\* getOrganizationAdministrators, given what the two listings answer
getOrganizationAdministrators(owners, members) ==
  LET listed == getOwners(NoArg, owners)
      administrators ==
        markAdministrators(<<>>, listed.outcome.value, 1, "owner")
      membersCall(t) == [via |-> "team.getMembers", team |-> t.id]
  IN  IF listed.outcome.kind = "throw" THEN listed
      ELSE IF sudoersTeam.kind = "throw"
      THEN [calls |-> listed.calls, outcome |-> sudoersTeam]
      ELSE IF sudoersTeam.value = Null
      THEN [calls |-> listed.calls, outcome |-> Return(administrators)]
      ELSE [calls |-> Append(listed.calls, membersCall(sudoersTeam.value)),
            outcome |->
              IF members.kind = "throw"
              THEN IF StatusIs(members.value, 404)
                   THEN Return(administrators)
                   ELSE members
              ELSE Return(markAdministrators(administrators, members.value,
                                             1, "sudo"))]

GetOrganizationAdministrators ==
  \E owners \in AdministratorListings, members \in AdministratorListings :
    LET r == getOrganizationAdministrators(owners, members)
    IN  /\ result = NoResult
        /\ result' = [op |-> "getOrganizationAdministrators",
                      owners |-> owners,
                      \* the answer is recorded only when it was asked for
                      members |-> IF Len(r.calls) < 2 THEN Null ELSE members,
                      outcome |-> r.outcome]
        /\ calls' = r.calls
        /\ CapsUnchanged

NextCaps ==
  \/ GetSpecialTeam
  \/ SudoersTeam
  \/ SystemSudoersTeam
  \/ InvitationTeam
  \/ IsSudoer
  \/ SystemTeamIds
  \/ GetOrganizationAdministrators

SpecCaps == InitCaps /\ [][NextCaps]_vars

(***************************************************************************)
(* removeMember, from one await to the next.                               *)
(***************************************************************************)
Pending == [kind |-> "pending"]

\* a lookup made whether or not an id was passed
NoMemberIdIgnored(optionalId) == TRUE
\* !optionalId, for an id given as a string ({} when no id was passed)
NoMemberId(optionalId) == optionalId = {} \/ optionalId = {<<>>}

\* queryCache && queryCache.supportsOrganizationMembership
queryCacheSupported ==
  queryCache # NoArg /\ queryCache.supportsOrganizationMembership

lookupCall == [via |-> "operations.getAccountByUsername"]
notifyCall(orgId, memberId) ==
  [via |-> "queryCache.removeOrganizationMember", org |-> orgId,
   member |-> memberId]

\* what the outer catch throws
removeMemberError(error) ==
  Throw(wrapError(error, "Could not remove the organization member"))
\* a fault of the secondary step that reaches the outer catch
swallowedNot(error) == removeMemberError(error)
\* catch (ignored) {}: a fault of the secondary step ends the call normally
swallowed(error) == Return(Undefined)

TypeError == [class |-> "TypeError", message |-> "cannot read property"]

removeMemberEnds(post, secondary, outcome) ==
  /\ result' = [result EXCEPT !.post = post, !.secondary = secondary,
                              !.outcome = outcome]
  /\ rm' = IdleRm
  /\ UNCHANGED calls

\* queryCache.removeOrganizationMember(this.id.toString(), optionalId):
\* the arguments are evaluated first, and this.id may be undefined
removeMemberNotifies(memberId) ==
  IF id = {}
  THEN removeMemberEnds("ok", "idUnknown", swallowed(TypeError))
  ELSE /\ calls' = Append(calls,
                     LET orgId == CHOOSE n \in id : TRUE
                         m == CHOOSE x \in memberId : TRUE
                     IN  notifyCall(toString(orgId), m))
       /\ rm' = [pc |-> "notify", memberId |-> memberId]
       /\ result' = [result EXCEPT !.post = "ok"]

OpsUnchanged ==
  UNCHANGED <<specialTeams, debug, teams, queryCache, entry, tasks, served,
              waiting>>

MemberIds == { {}, {<<>>}, {<<"4", "2">>} }

RemoveMemberStart ==
  \E optionalId \in MemberIds :
    /\ rm.pc = "idle"
    /\ rm' = [pc |-> "post", memberId |-> optionalId]
    /\ calls' = <<Post("orgs.removeMembership", authorize("Operations"))>>
    /\ result' = [op |-> "removeMember", args |-> [optionalId |-> optionalId],
                  post |-> "pending", secondary |-> "none",
                  outcome |-> Pending]
    /\ UNCHANGED <<id, wrapErrorStatus>>
    /\ OpsUnchanged

RemoveMemberPosted ==
  \E response \in {Return(Undefined)} \cup { Throw(e) : e \in RemoteFailures } :
    /\ rm.pc = "post"
    /\ IF response.kind = "throw"
       THEN removeMemberEnds("failed", "none", removeMemberError(response.value))
       ELSE IF ~queryCacheSupported
       THEN removeMemberEnds("ok", "none", Return(Undefined))
       ELSE IF NoMemberId(rm.memberId)
       THEN /\ calls' = Append(calls, lookupCall)
            /\ rm' = [rm EXCEPT !.pc = "lookup"]
            /\ result' = [result EXCEPT !.post = "ok"]
       ELSE removeMemberNotifies(rm.memberId)
    /\ UNCHANGED <<id, wrapErrorStatus>>
    /\ OpsUnchanged

\* operations.getAccountByUsername answers: an account, no account, a fault
RemoveMemberLookedUp ==
  \E response \in {Return([id |-> 42]), Return(Null), Throw(NetworkError)} :
    /\ rm.pc = "lookup"
    /\ IF response.kind = "throw"
       THEN removeMemberEnds("ok", "lookupFailed", swallowed(response.value))
       ELSE IF response.value = Null
       THEN removeMemberEnds("ok", "lookupFailed", swallowed(TypeError))
       ELSE removeMemberNotifies({toString(response.value.id)})
    /\ UNCHANGED <<id, wrapErrorStatus>>
    /\ OpsUnchanged

RemoveMemberNotified ==
  \E response \in {Return(Undefined), Throw(NetworkError)} :
    /\ rm.pc = "notify"
    /\ IF response.kind = "throw"
       THEN removeMemberEnds("ok", "notifyFailed", swallowed(response.value))
       ELSE removeMemberEnds("ok", "notified", Return(Undefined))
    /\ UNCHANGED <<id, wrapErrorStatus>>
    /\ OpsUnchanged

(***************************************************************************)
(* The other operations: one action each.  They are taken while no         *)
(* removeMember call is between two awaits; none of them reads or writes   *)
(* what removeMember holds.                                                *)
(***************************************************************************)
Answers(values) ==
  { Return(v) : v \in values } \cup { Throw(e) : e \in RemoteFailures }

MemberListings ==
  { Return(<<>>), Return(<<[id |-> 1, login |-> <<"A">>]>>),
    Throw(RemoteError(500)) }
TeamListings ==
  { Return(<<>>), Return(<<[id |-> 1, name |-> <<"C">>, slug |-> <<"c">>]>>),
    Throw(RemoteError(500)) }
RepositoryListings ==
  { Return(<<>>), Return(<<[id |-> 1, name |-> "repo"]>>),
    Throw(RemoteError(500)) }

MemberOptionsPool ==
  OptionsPool \cup { [role |-> "member"],
                     [filter |-> "2fa_disabled", maxAgeSeconds |-> -60] }

\* an operation that runs from call to completion: what it did is recorded
Completes(op, args, r) ==
  /\ rm.pc = "idle"
  /\ result' = [op |-> op, args |-> args, outcome |-> r.outcome]
  /\ calls' = r.calls
  /\ UNCHANGED rm
  /\ OpsUnchanged

GetMembers ==
  \E options \in MemberOptionsPool, response \in MemberListings :
    /\ Completes("getMembers", [options |-> options],
                 getMembers(options, response))
    /\ UNCHANGED <<id, wrapErrorStatus>>

GetOwners ==
  \E options \in OptionsPool, response \in MemberListings :
    /\ Completes("getOwners", [options |-> options],
                 getOwners(options, response))
    /\ UNCHANGED <<id, wrapErrorStatus>>

GetMembersWithoutTwoFactor ==
  \E options \in OptionsPool, response \in MemberListings :
    /\ Completes("getMembersWithoutTwoFactor", [options |-> options],
                 getMembersWithoutTwoFactor(options, response))
    /\ UNCHANGED <<id, wrapErrorStatus>>

IsMemberSingleFactor ==
  \E username \in { <<"a">>, <<"b">> }, options \in OptionsPool,
     response \in MemberListings :
    /\ Completes("isMemberSingleFactor",
                 [username |-> username, options |-> options],
                 isMemberSingleFactor(username, options, response))
    /\ UNCHANGED <<id, wrapErrorStatus>>

GetTeams ==
  \E options \in OptionsPool, response \in TeamListings :
    /\ Completes("getTeams", [options |-> options],
                 getTeams(options, response))
    /\ UNCHANGED <<id, wrapErrorStatus>>

GetRepositories ==
  \E options \in OptionsPool, response \in RepositoryListings :
    /\ Completes("getRepositories", [options |-> options],
                 getRepositories(options, response))
    /\ UNCHANGED <<id, wrapErrorStatus>>

CreateRepository ==
  \E response \in Answers({[id |-> 1, name |-> "repo", headers |-> "h"]}),
     parseError \in BOOLEAN :
    /\ Completes("createRepository", [response |-> response],
                 createRepository(response, parseError))
    /\ UNCHANGED <<id, wrapErrorStatus>>

GetDetails ==
  \E response \in Answers({Null, EmptyObj, [id |-> 7], [id |-> 8]}) :
    /\ Completes("getDetails", [response |-> response], getDetails(response))
    /\ id' = idAfterDetails(response)
    /\ UNCHANGED wrapErrorStatus

GetAuthorizedOperationsAccount ==
  \E response \in Answers({[id |-> 42]}) :
    /\ Completes("getAuthorizedOperationsAccount", [response |-> response],
                 getAuthorizedOperationsAccount(response))
    /\ UNCHANGED <<id, wrapErrorStatus>>

AcceptOrganizationInvitation ==
  \E response \in Answers({[state |-> "active"]}) :
    /\ Completes("acceptOrganizationInvitation", [response |-> response],
                 acceptOrganizationInvitation(response))
    /\ UNCHANGED <<id, wrapErrorStatus>>

GetMembership ==
  \E options \in {NoArg, [maxAgeSeconds |-> -60], [maxAgeSeconds |-> 10]},
     response \in Answers({[state |-> "active", role |-> "member"]}) :
    /\ Completes("getMembership",
                 [options |-> options, response |-> response],
                 getMembership(options, response))
    /\ wrapErrorStatus' = wrapErrorStatusAfter(response)
    /\ UNCHANGED id

GetOperationalMembership ==
  \E hasUsername \in BOOLEAN,
     response \in Answers({[state |-> "active", role |-> "member"]}) :
    /\ Completes("getOperationalMembership",
                 [hasUsername |-> hasUsername, response |-> response],
                 getOperationalMembership(hasUsername, response))
    /\ wrapErrorStatus' = IF hasUsername THEN wrapErrorStatusAfter(response)
                          ELSE wrapErrorStatus
    /\ UNCHANGED id

AddMembership ==
  \E response \in Answers({[state |-> "pending"]}) :
    /\ Completes("addMembership", [response |-> response], addMembership(response))
    /\ UNCHANGED <<id, wrapErrorStatus>>

CheckPublicMembership ==
  \E response \in Answers({Undefined}) :
    /\ Completes("checkPublicMembership", [response |-> response],
                 checkPublicMembership(response))
    /\ UNCHANGED <<id, wrapErrorStatus>>

ConcealMembership ==
  \E response \in Answers({Undefined}) :
    /\ Completes("concealMembership", [response |-> response], concealMembership(response))
    /\ UNCHANGED <<id, wrapErrorStatus>>

PublicizeMembership ==
  \E response \in Answers({Undefined}) :
    /\ Completes("publicizeMembership", [response |-> response], publicizeMembership(response))
    /\ UNCHANGED <<id, wrapErrorStatus>>

GetMembershipInvitations ==
  \E response \in Answers({<<>>}) :
    /\ Completes("getMembershipInvitations", [response |-> response],
                 getMembershipInvitations(response))
    /\ UNCHANGED <<id, wrapErrorStatus>>

\* settings.organizationId, through asNumber, when the settings carry one
Init ==
  /\ id \in { {}, {7} }
  /\ queryCache \in { NoArg, [supportsOrganizationMembership |-> FALSE],
                      [supportsOrganizationMembership |-> TRUE] }
  /\ wrapErrorStatus = {}
  /\ rm = IdleRm
  /\ result = NoResult
  /\ calls = <<>>
  /\ specialTeams = <<>>
  /\ debug = NoArg
  /\ teams = <<>>
  /\ entry = <<>>
  /\ tasks = <<>>
  /\ served = <<>>
  /\ waiting = {}

Next ==
  \/ RemoveMemberStart
  \/ RemoveMemberPosted
  \/ RemoveMemberLookedUp
  \/ RemoveMemberNotified
  \/ GetMembers
  \/ GetOwners
  \/ GetMembersWithoutTwoFactor
  \/ IsMemberSingleFactor
  \/ GetTeams
  \/ GetRepositories
  \/ CreateRepository
  \/ GetDetails
  \/ GetAuthorizedOperationsAccount
  \/ AcceptOrganizationInvitation
  \/ GetMembership
  \/ GetOperationalMembership
  \/ AddMembership
  \/ CheckPublicMembership
  \/ ConcealMembership
  \/ PublicizeMembership
  \/ GetMembershipInvitations

Spec == Init /\ [][Next]_vars

(***************************************************************************)
(* The collection cache behind github.collections, with concurrent callers *)
(* of getMembers.  A cache entry is keyed by the parameters of the         *)
(* listing; it has an age in seconds.  A caller is given the entry when it *)
(* is fresh enough for the caller's policy; given the stale entry at once  *)
(* when the policy allows a background refresh, a refresh being scheduled  *)
(* unless one is in flight for the key; and otherwise waits for a remote   *)
(* fetch, which replaces the entry.                                        *)
(***************************************************************************)
Callers == 1..MaxCallers

CacheOptionsPool ==
  { NoArg, [maxAgeSeconds |-> -60], [backgroundRefresh |-> FALSE],
    [role |-> "admin"] }

CacheKeys == { getMembersParameters(o) : o \in CacheOptionsPool }

NoEntry == [absent |-> TRUE]
FreshEntry == [age |-> 0]
\* the ages an entry goes through: just written, and older than every budget
EntryAges == {0, 400}

\* how the fetcher finds the entry for a policy
found(policy, e) ==
  IF e = NoEntry THEN "absent"
  ELSE IF policy.maxAgeSeconds < 0 THEN "forced"
  ELSE IF e.age <= policy.maxAgeSeconds THEN "fresh"
  ELSE "stale"

\* what the fetcher does for the caller: "cached" and "stale" return the
\* entry without a remote call, "blocks" waits for a remote fetch
fetchPath(policy, e) ==
  CASE found(policy, e) = "fresh" -> "cached"
    [] found(policy, e) = "stale" /\ policy.backgroundRefresh -> "stale"
    [] OTHER -> "blocks"

\* scheduling a refresh for a key: late arrivals join the one in flight
scheduleRefresh(t, caller) ==
  [refreshes |-> IF t.refreshes = 0 THEN 1 ELSE t.refreshes,
   staleServed |-> t.staleServed \cup {caller}]

NoTasks == [refreshes |-> 0, staleServed |-> {}]

CacheUnchanged ==
  UNCHANGED <<specialTeams, debug, teams, id, queryCache, rm, result,
              wrapErrorStatus>>

InitCache ==
  /\ entry = [k \in CacheKeys |-> NoEntry]
  /\ tasks = [k \in CacheKeys |-> NoTasks]
  /\ served = NoResult
  /\ waiting = {}
  /\ calls = <<>>
  /\ result = NoResult
  /\ specialTeams = <<>>
  /\ debug = NoArg
  /\ teams = <<>>
  /\ id = {}
  /\ queryCache = NoArg
  /\ rm = IdleRm
  /\ wrapErrorStatus = {}

\* caller c calls getMembers(options): the policy and the key are the ones
\* getMembers builds
CacheGetMembers ==
  \E c \in Callers \ { w.caller : w \in waiting }, options \in CacheOptionsPool :
    LET call == getMembersCall(options)
        key == call.parameters
        policy == call.caching
        path == fetchPath(policy, entry[key])
    IN  /\ calls' = <<call>>
        /\ served' = [op |-> "getMembers", caller |-> c, options |-> options,
                      key |-> key, found |-> found(policy, entry[key]),
                      path |-> path, waited |-> path = "blocks"]
        /\ tasks' = IF path = "stale"
                    THEN [tasks EXCEPT ![key] = scheduleRefresh(@, c)]
                    ELSE tasks
        /\ waiting' = IF path = "blocks"
                      THEN waiting \cup {[caller |-> c, key |-> key]}
                      ELSE waiting
        /\ UNCHANGED entry
        /\ CacheUnchanged

\* the remote fetch a caller waits for completes: the entry is replaced
CacheFetchCompletes ==
  \E w \in waiting :
    /\ waiting' = waiting \ {w}
    /\ entry' = [entry EXCEPT ![w.key] = FreshEntry]
    /\ UNCHANGED <<tasks, served, calls>>
    /\ CacheUnchanged

\* the remote fetch a caller waits for fails: the caller gets the failure
CacheFetchFails ==
  \E w \in waiting :
    /\ waiting' = waiting \ {w}
    /\ UNCHANGED <<entry, tasks, served, calls>>
    /\ CacheUnchanged

\* the background refresh of a key completes and replaces the entry
CacheRefreshCompletes ==
  \E k \in CacheKeys :
    /\ tasks[k].refreshes > 0
    /\ tasks' = [tasks EXCEPT ![k] = [refreshes |-> @.refreshes - 1,
                                      staleServed |-> {}]]
    /\ entry' = [entry EXCEPT ![k] = FreshEntry]
    /\ UNCHANGED <<served, waiting, calls>>
    /\ CacheUnchanged

\* the background refresh of a key fails: logged, the entry stays
CacheRefreshFails ==
  \E k \in CacheKeys :
    /\ tasks[k].refreshes > 0
    /\ tasks' = [tasks EXCEPT ![k] = [refreshes |-> @.refreshes - 1,
                                      staleServed |-> {}]]
    /\ UNCHANGED <<entry, served, waiting, calls>>
    /\ CacheUnchanged

\* time passes: an entry grows older
CacheAges ==
  \E k \in CacheKeys, a \in EntryAges :
    /\ entry[k] # NoEntry
    /\ a > entry[k].age
    /\ entry' = [entry EXCEPT ![k] = [age |-> a]]
    /\ UNCHANGED <<tasks, served, waiting, calls>>
    /\ CacheUnchanged

NextCache ==
  \/ CacheGetMembers
  \/ CacheFetchCompletes
  \/ CacheFetchFails
  \/ CacheRefreshCompletes
  \/ CacheRefreshFails
  \/ CacheAges

SpecCache == InitCache /\ [][NextCache]_vars

(***************************************************************************)
(* Properties of the team resolution, under SpecResolve.                   *)
(***************************************************************************)
Resolved == result.op = "getTeamFromName" /\ result.fetched
Expected == toLowerCase(result.nameOrSlug)
MatchesSlugOrName(e) ==
  Expected = toLowerCase(e.slug) \/ Expected = toLowerCase(e.name)

\* C1: resolving a team by its own slug returns that team, with no redirect,
\* whatever the names and slugs of the other teams of the list are.
C1_OwnSlugReturnsTeam ==
  Resolved =>
    \A i \in DOMAIN result.listed :
      result.nameOrSlug = result.listed[i].slug
        => result.outcome = Return(teamFromEntity(result.listed[i]))

\* C2: with no slug or name match and the input equal to a team's id as a
\* string, the value raised is an error with status 301 that carries that
\* team's slug and the team.
C2_IdFallbackRaisesRedirect ==
  Resolved =>
    \A i \in DOMAIN result.listed :
      ( /\ toString(result.listed[i].id) = Expected
        /\ \A j \in DOMAIN result.listed : ~MatchesSlugOrName(result.listed[j]) )
        => /\ result.outcome.kind = "throw"
           /\ result.outcome.value.class = "Error"
           /\ StatusIs(result.outcome.value, 301)
           /\ result.outcome.value.slug = result.listed[i].slug
           /\ Has(result.outcome.value, "team")
           /\ result.outcome.value.team = teamFromEntity(result.listed[i])

(***************************************************************************)
(* Properties of the special teams and of isSudoer, under SpecCaps.        *)
(***************************************************************************)
ConfiguredIds(specialTeam) ==
  { specialTeams[i].teamId : i \in EntriesFor(specialTeam) }

\* C3: with two or more team ids configured for a single-valued role (Sudo,
\* GlobalSudo, Everyone), the role's single-team accessor fails with a
\* "multiple ... teams are not supported" fault and returns no team.  The
\* ids are taken non-zero here, so that each alone would resolve.
C3_MultipleTeamsRejected ==
  ( /\ result.op \in {"sudoersTeam", "systemSudoersTeam", "invitationTeam"}
    /\ Cardinality(ConfiguredIds(result.specialTeam) \ {0}) >= 2 )
    => result.outcome.kind = "throw"

\* C4: with exactly one Sudo entry configured, getSpecialTeam(Sudo) is the
\* one-element list of that entry's team id, whatever the id; with no Sudo
\* entry it is the empty list.
C4_SudoResolvesToConfiguredId ==
  (result.op = "getSpecialTeam" /\ result.specialTeam = "Sudo") =>
    /\ EntriesFor("Sudo") = {} => result.outcome.value = <<>>
    /\ \A i \in EntriesFor("Sudo") :
         EntriesFor("Sudo") = {i}
           => result.outcome.value = <<specialTeams[i].teamId>>

\* C10: isSudoer returns false and issues no remote call when no Sudo special
\* team is configured, and when the debug override orgSudoOff is set.
C10_NoSudoNoRemoteCall ==
  (result.op = "isSudoer" /\ (EntriesFor("Sudo") = {} \/ orgSudoOff)) =>
    /\ result.outcome.kind = "return"
    /\ result.outcome.value = FALSE
    /\ calls = <<>>

\* a sudo team is configured and resolves, the override is set, and isSudoer
\* answered false without a call
C10_Witness ==
  /\ result.op = "isSudoer"
  /\ orgSudoOff
  /\ getSpecialTeam("Sudo") # <<>>
  /\ result.outcome = Return(FALSE)
  /\ calls = <<>>

(***************************************************************************)
(* Properties of the remote operations, under Spec.                        *)
(***************************************************************************)
\* the calls that go to the remote API with a credential
CredentialCalls == { i \in DOMAIN calls : Has(calls[i], "cred") }

OperationsApis ==
  {"repos.createInOrg", "orgs.addOrUpdateMembership", "orgs.removeMembership"}
AcceptApis == {"orgs.updateMembership"}
ListingApis == {"orgs.listMembers", "orgs.getTeams", "repos.listForOrg"}
UserTokenApis ==
  {"orgs.updateMembership", "orgs.concealMembership", "orgs.publicizeMembership"}

HasPurpose(c, purpose) == c.cred.kind = "supplier" /\ c.cred.purpose = purpose

\* C5: every remote call is issued with a supplier obtained for a declared
\* purpose: Operations for create repository, add, remove and accept/update
\* membership, Data for the listings, CustomerFacing for the public
\* membership check.
C5_EveryCallDeclaresItsPurpose ==
  \A i \in CredentialCalls :
    /\ calls[i].cred.kind = "supplier"
    /\ calls[i].cred.purpose \in Purposes
    /\ calls[i].api \in OperationsApis \cup AcceptApis
         => HasPurpose(calls[i], "Operations")
    /\ calls[i].api \in ListingApis => HasPurpose(calls[i], "Data")
    /\ calls[i].api = "orgs.checkPublicMembership"
         => HasPurpose(calls[i], "CustomerFacing")

\* C5, amended: accept/update membership, conceal and publicize membership go
\* out with the user's own token; every other remote call is issued with a
\* supplier obtained for a declared purpose, with the purposes as above.
C5_PurposeOrUserToken ==
  \A i \in CredentialCalls :
    /\ calls[i].api \in UserTokenApis <=> calls[i].cred = userTokenHeader
    /\ calls[i].api \notin UserTokenApis
         => calls[i].cred.kind = "supplier" /\ calls[i].cred.purpose \in Purposes
    /\ calls[i].api \in OperationsApis => HasPurpose(calls[i], "Operations")
    /\ calls[i].api \in ListingApis => HasPurpose(calls[i], "Data")
    /\ calls[i].api = "orgs.checkPublicMembership"
         => HasPurpose(calls[i], "CustomerFacing")

\* an invitation was accepted, the call carrying the user's token
C5_Witness ==
  /\ result.op = "acceptOrganizationInvitation"
  /\ Len(calls) = 1
  /\ calls[1].api = "orgs.updateMembership"
  /\ calls[1].cred = userTokenHeader

ListingOps ==
  {"getMembers", "getOwners", "getMembersWithoutTwoFactor",
   "isMemberSingleFactor", "getTeams", "getRepositories"}

\* the negative staleness budget the caller of the last operation asked for
NegativeMaxAgeAsked ==
  IF result.op = "getOperationalMembership" /\ result.args.hasUsername
  THEN {operationalOptions.maxAgeSeconds}
  ELSE IF /\ result.op \in ListingOps
          /\ result.args.options # NoArg
          /\ Has(result.args.options, "maxAgeSeconds")
          /\ result.args.options.maxAgeSeconds < 0
  THEN {result.args.options.maxAgeSeconds}
  ELSE {}

\* C6: a negative maxAgeSeconds, the -60 of getOperationalMembership or a
\* negative override of a listing, reaches the remote fetch: the call is made
\* with a caching policy that carries it.
C6_NegativeMaxAgeReachesFetch ==
  \A age \in NegativeMaxAgeAsked :
    /\ calls # <<>>
    /\ \A i \in CredentialCalls :
         /\ calls[i].caching # NoArg
         /\ calls[i].caching.maxAgeSeconds = age

RemoveMemberCalled == result.op = "removeMember"

\* C8: once the remote removal succeeded, removeMember never throws, and
\* ends by returning normally, whatever the secondary cache step does.
C8_SecondaryFaultsSwallowed ==
  (RemoveMemberCalled /\ result.post = "ok") =>
    /\ result.outcome.kind # "throw"
    /\ rm.pc = "idle" => result.outcome = Return(Undefined)

\* the removal succeeded, removeOrganizationMember failed, the call returned
C8_Witness ==
  /\ RemoveMemberCalled
  /\ result.secondary = "notifyFailed"
  /\ result.outcome = Return(Undefined)

SecondaryCalls ==
  { i \in DOMAIN calls :
      calls[i].via \in {"operations.getAccountByUsername",
                        "queryCache.removeOrganizationMember"} }

\* C9: in removeMember the identity lookup and the secondary cache are
\* invoked only after the remote removal succeeded, the lookup only when no
\* member id was passed and before the notification; when the removal fails
\* nothing else is invoked and the caller gets a wrapped error.
C9_SecondaryOnlyAfterRemoval ==
  RemoveMemberCalled =>
    /\ calls[1].api = "orgs.removeMembership"
    /\ \A i \in SecondaryCalls : i > 1 /\ result.post = "ok"
    /\ \A i \in SecondaryCalls :
         calls[i].via = "operations.getAccountByUsername"
           => /\ result.args.optionalId \in { {}, {<<>>} }
              /\ i = 2
    /\ result.post = "failed" =>
         /\ Len(calls) = 1
         /\ result.outcome.kind = "throw"
         /\ Has(result.outcome.value, "innerError")

\* the removal succeeded, the id was looked up, the secondary cache notified
C9_Witness ==
  /\ RemoveMemberCalled
  /\ result.secondary = "notified"
  /\ Len(calls) = 3
  /\ calls[2].via = "operations.getAccountByUsername"
  /\ calls[3].via = "queryCache.removeOrganizationMember"

(***************************************************************************)
(* Properties of the collection cache, under SpecCache.                    *)
(***************************************************************************)
\* the caller left background refresh on and asked for no negative budget
DefaultRefresh(options) ==
  LET o == OrEmpty(options)
  IN  /\ ~(Has(o, "backgroundRefresh") /\ o.backgroundRefresh = FALSE)
      /\ ~(Has(o, "maxAgeSeconds") /\ o.maxAgeSeconds < 0)

SudoAsked == result.op = "isSudoer" /\ calls # <<>>
RoleOf(response) ==
  IF response.value # Null /\ Has(response.value, "role")
  THEN {response.value.role} ELSE {}

\* C11: isSudoer is true for the roles member and maintainer, false when
\* the answer has no membership or no role, and for any other role it
\* throws an 'unrecognized membership type' error instead of returning.
C11_RoleClassification ==
  (SudoAsked /\ result.response.kind = "return") =>
    LET role == RoleOf(result.response)
    IN  /\ role \subseteq GitHubTeamRole /\ role # {}
          => result.outcome = Return(TRUE)
        /\ role = {} => result.outcome = Return(FALSE)
        /\ (role # {} /\ ~(role \subseteq GitHubTeamRole))
          => /\ result.outcome.kind = "throw"
             /\ result.outcome.value.message = "unrecognized membership type"

C11_Witness ==
  /\ SudoAsked
  /\ result.response = Return([role |-> "admin"])
  /\ result.outcome.kind = "throw"

\* C12: when the membership query of the sudo team fails with status 404,
\* isSudoer returns false; when it fails with another status or with none,
\* the caller gets that same failure.
C12_MissingTeamIsNoSudoer ==
  (SudoAsked /\ result.response.kind = "throw") =>
    IF result.response.value = RemoteError(404)
    THEN result.outcome = Return(FALSE)
    ELSE result.outcome = Throw(result.response.value)

C12_Witness ==
  /\ SudoAsked
  /\ result.response = Throw(RemoteError(404))
  /\ result.outcome = Return(FALSE)

(***************************************************************************)
(* More properties of the team resolution, under SpecResolve.              *)
(***************************************************************************)
\* the input equals the name of e, and that name is not the slug of e
MatchesDivergingName(e) ==
  /\ Expected = toLowerCase(e.name)
  /\ toLowerCase(e.name) # toLowerCase(e.slug)
\* e is what the scan stops at
FirstMatch(i) ==
  /\ MatchesSlugOrName(result.listed[i])
  /\ \A j \in 1..(i - 1) : ~MatchesSlugOrName(result.listed[j])
\* the redirect signal for e
RedirectsTo(e) ==
  /\ result.outcome.kind = "throw"
  /\ result.outcome.value.class = "Error"
  /\ StatusIs(result.outcome.value, 301)
  /\ result.outcome.value.slug = toLowerCase(e.slug)
  /\ Has(result.outcome.value, "team")
  /\ result.outcome.value.team = teamFromEntity(e)

\* C13, as stated: whenever the input equals the name of a team of the list
\* and that name differs from the team's slug, the call fails with a 301
\* redirect error that carries that team's slug and the Team.
C13_AnyNameMatchRedirects ==
  Resolved =>
    \A i \in DOMAIN result.listed :
      MatchesDivergingName(result.listed[i]) => RedirectsTo(result.listed[i])

\* C13, amended: when the first team in list order that the input matches by
\* slug or by name is matched by a name that differs from its slug, the call
\* fails with a 301 redirect error that carries that team's slug and the
\* Team, and returns no Team.
C13_FirstNameMatchRedirects ==
  Resolved =>
    \A i \in DOMAIN result.listed :
      (FirstMatch(i) /\ MatchesDivergingName(result.listed[i]))
        => RedirectsTo(result.listed[i])

C13_Witness ==
  /\ Resolved
  /\ Len(result.listed) = 2
  /\ FirstMatch(2)
  /\ MatchesDivergingName(result.listed[2])
  /\ RedirectsTo(result.listed[2])

C15_NoMatchIsNotFound ==
  ( /\ Resolved
    /\ \A i \in DOMAIN result.listed :
         /\ ~MatchesSlugOrName(result.listed[i])
         /\ toString(result.listed[i].id) # Expected )
    => /\ result.outcome.kind = "throw"
       /\ result.outcome.value.class = "Error"
       /\ StatusIs(result.outcome.value, 404)
       /\ Has(result.outcome.value, "skipLog")
       /\ result.outcome.value.skipLog = TRUE

C15_Witness ==
  /\ Resolved
  /\ result.listed # <<>>
  /\ \A i \in DOMAIN result.listed :
       /\ ~MatchesSlugOrName(result.listed[i])
       /\ toString(result.listed[i].id) # Expected
  /\ StatusIs(result.outcome.value, 404)

C15_WitnessEmptyList ==
  /\ Resolved
  /\ result.listed = <<>>
  /\ StatusIs(result.outcome.value, 404)

(***************************************************************************)
(* Properties of the failures of the remote operations, under Spec.        *)
(***************************************************************************)
\* the operations whose contract makes absence a valid outcome, with what
\* they return for it
AbsenceValue ==
  [getMembership |-> Null, getMembershipInvitations |-> Null,
   checkPublicMembership |-> FALSE]
AbsenceOps == DOMAIN AbsenceValue

\* the operation ran to its end and the remote call it made failed
RemoteFailed ==
  /\ result.op # "none"
  /\ Has(result.args, "response")
  /\ result.args.response.kind = "throw"
  /\ calls # <<>>
Absent == RemoteFailed /\ StatusIs(result.args.response.value, 404)

\* C16: getMembership and getMembershipInvitations return null and
\* checkPublicMembership returns false when the remote call fails with
\* status 404; a failure with another status, or with none, is raised.
C16_AbsenceIsNotRaised ==
  (RemoteFailed /\ result.op \in AbsenceOps) =>
    IF Absent
    THEN result.outcome = Return(AbsenceValue[result.op])
    ELSE result.outcome.kind = "throw"

C16_Witness ==
  /\ Absent
  /\ result.op = "getMembershipInvitations"
  /\ result.outcome = Return(Null)

\* the operations C17 names
WrappingOps ==
  {"getDetails", "createRepository", "addMembership", "getMembership",
   "getMembershipInvitations", "checkPublicMembership", "concealMembership",
   "publicizeMembership"}

\* the caller gets a new error that wraps the remote failure
WrappedFor(error) ==
  /\ result.outcome.kind = "throw"
  /\ Has(result.outcome.value, "innerError")
  /\ result.outcome.value.innerError = error

\* C17: a remote failure other than an absence is attempted once and
\* reaches the caller wrapped in an error with a message of the operation,
\* for get details, create repository, add and remove membership, get
\* membership, pending invitations and the public-membership operations.
C17_FailuresWrappedOnce ==
  /\ ( /\ RemoteFailed
       /\ result.op \in WrappingOps
       /\ ~(Absent /\ result.op \in AbsenceOps) )
     => Len(calls) = 1 /\ WrappedFor(result.args.response.value)
  /\ (result.op = "removeMember" /\ result.post = "failed")
     => Len(calls) = 1 /\ result.outcome.kind = "throw"
                       /\ Has(result.outcome.value, "innerError")

(***************************************************************************)
(* Properties of the organization's identity, under Spec.                  *)
(***************************************************************************)
\* C18: the id of the organization is set once: when it has a value, from
\* the settings or from getDetails, no later step changes it.  (The name is
\* written by the constructor alone.)
C18_IdSetOnce == [][id # {} => id' = id]_vars

(***************************************************************************)
(* Properties of systemTeamIds, under SpecCaps.                            *)
(***************************************************************************)
\* every team id configured for a role, in the order of the settings
AllConfiguredIds(specialTeam) ==
  LET entries == SelectSeq(specialTeams,
                           LAMBDA e : e.specialTeam = specialTeam)
  IN  [i \in DOMAIN entries |-> entries[i].teamId]

\* C19: systemTeamIds is the sudo team id, then the broad access team ids,
\* then all configured SystemRead ids, all SystemWrite ids and all
\* SystemAdmin ids, an id appearing once for each role it is configured
\* under.  The ids are taken non-zero here, and the Sudo and Everyone roles
\* configured at most once.
C19_SystemTeamIdsAggregate ==
  ( /\ result.op = "systemTeamIds"
    /\ \A i \in DOMAIN specialTeams : specialTeams[i].teamId # 0
    /\ Len(AllConfiguredIds("Sudo")) <= 1
    /\ Len(AllConfiguredIds("Everyone")) <= 1 )
    => result.outcome =
         Return(AllConfiguredIds("Sudo") \o AllConfiguredIds("Everyone")
                  \o AllConfiguredIds("SystemRead")
                  \o AllConfiguredIds("SystemWrite")
                  \o AllConfiguredIds("SystemAdmin"))

(***************************************************************************)
(* Properties of the caching policy of the listings, under Spec.           *)
(***************************************************************************)
\* the caller passed backgroundRefresh = false
OptedOut(options) ==
  LET o == OrEmpty(options)
  IN  Has(o, "backgroundRefresh") /\ o.backgroundRefresh = FALSE

\* C20: the caching policy a listing hands to the collection fetcher has
\* backgroundRefresh set: false when the caller passed false, true
\* otherwise, and so with no options.
C20_BackgroundRefreshAlwaysSet ==
  (result.op \in ListingOps /\ calls # <<>>) =>
    /\ Has(calls[1].caching, "backgroundRefresh")
    /\ calls[1].caching.backgroundRefresh = ~OptedOut(result.args.options)

(***************************************************************************)
(* Properties of the staleness budget of the listings, under Spec.         *)
(***************************************************************************)
\* the default staleness of each collection
DefaultStaleSeconds ==
  [getMembers |-> orgMembersStaleSeconds, getTeams |-> orgTeamsStaleSeconds,
   getRepositories |-> orgReposStaleSeconds]

\* C21: the maxAgeSeconds of the caching policy of getMembers, getTeams and
\* getRepositories is the value the caller passed, whatever it is, 0 and
\* negative values included; the collection's default is used only when
\* the caller passed none.
C21_StalenessOverrideKept ==
  (result.op \in DOMAIN DefaultStaleSeconds /\ calls # <<>>) =>
    LET o == OrEmpty(result.args.options)
    IN  calls[1].caching.maxAgeSeconds =
          IF Has(o, "maxAgeSeconds") THEN o.maxAgeSeconds
          ELSE DefaultStaleSeconds[result.op]

(***************************************************************************)
(* Properties of the redirect and of the caller's options, under           *)
(* SpecResolve.                                                            *)
(***************************************************************************)
\* the call raised a redirect: the error of a diverging name, or what the
\* id fallback raises
Redirected ==
  /\ Resolved
  /\ result.outcome.kind = "throw"
  /\ result.outcome.value # teamNotFoundError

\* C22: the slug a redirect carries differs, case-insensitively, from the
\* input of the caller, for the redirect of a diverging name and for the
\* redirect of the id fallback.
C22_RedirectSlugDiffersFromInput ==
  Redirected =>
    /\ Has(result.outcome.value, "slug")
    /\ toLowerCase(result.outcome.value.slug) # Expected

\* the id fallback raised a redirect
C22_Witness ==
  /\ Redirected
  /\ \A i \in DOMAIN result.listed : ~MatchesSlugOrName(result.listed[i])
  /\ toLowerCase(result.outcome.value.slug) # Expected

\* C23: the options object the caller passed has, after the call, the
\* fields and the values it had before.
C23_CallerOptionsUnchanged ==
  (result.op = "getTeamFromName" /\ result.options # NoArg)
    => result.optionsAfter = result.options

(***************************************************************************)
(* Properties of the shared state, under Spec.                             *)
(***************************************************************************)
\* C24: a failed getMembership call writes nothing that other calls share:
\* the function utils exports as wrapError gets no status property.
C24_NoSharedStateWritten == wrapErrorStatus = {}

(***************************************************************************)
(* Properties of getOrganizationAdministrators, under SpecCaps.            *)
(***************************************************************************)
AdministratorsAsked == result.op = "getOrganizationAdministrators"
\* the account ids of a listing that answered
AccountIds(answer) ==
  IF answer = Null \/ answer.kind = "throw" THEN {}
  ELSE { answer.value[i].id : i \in DOMAIN answer.value }
\* the sudo team's members were not asked for, or the team is gone
NoSudoMembers ==
  \/ result.members = Null
  \/ result.members = Throw(RemoteError(404))

\* C25: the administrators are one entry for each account id among the
\* owners and the sudo team's members, owner being true for the owners
\* alone and sudo for the sudo team's members alone; with no sudo team, or
\* a member query failing with status 404, they are the owners with sudo
\* false; another failure of the member query is raised.
C25_AdministratorsUnion ==
  (AdministratorsAsked /\ result.owners.kind = "return"
     /\ sudoersTeam.kind = "return") =>
    IF result.members # Null /\ result.members.kind = "throw" /\ ~NoSudoMembers
    THEN result.outcome = result.members
    ELSE LET administrators == result.outcome.value
             ownerIds == AccountIds(result.owners)
             sudoIds == IF NoSudoMembers THEN {}
                        ELSE AccountIds(result.members)
         IN  /\ result.outcome.kind = "return"
             /\ { administrators[k].id : k \in DOMAIN administrators }
                  = ownerIds \cup sudoIds
             /\ \A k, n \in DOMAIN administrators :
                  administrators[k].id = administrators[n].id => k = n
             /\ \A k \in DOMAIN administrators :
                  /\ administrators[k].owner = (administrators[k].id \in ownerIds)
                  /\ administrators[k].sudo = (administrators[k].id \in sudoIds)
             /\ (sudoersTeam.value = Null) => result.members = Null

\* an owner who is a sudoer too, and a sudoer who is no owner
C25_Witness ==
  /\ AdministratorsAsked
  /\ result.outcome.kind = "return"
  /\ Len(result.outcome.value) = 2
  /\ result.outcome.value[1].owner /\ result.outcome.value[1].sudo
  /\ ~result.outcome.value[2].owner /\ result.outcome.value[2].sudo

====
